---- MODULE Spec2Model ----
(***************************************************************************)
(* Model of candy_tools.server_data_getter.ServerDataGetter: caller        *)
(* threads running execute_and_wait / listen_and_wait against one delivery *)
(* thread running on_info, sharing the registry `queries`.                  *)
(*                                                                         *)
(* Every block the code runs under `with self.lock` is one atomic action;  *)
(* code outside the lock is split wherever it touches shared state (the    *)
(* registry, a query's Queue, the clock).  `lock` names the thread that    *)
(* holds self.lock between two steps.                                      *)
(*                                                                         *)
(* on_load of entry.py, which decides which ServerDataGetter the plugin    *)
(* feeds after a reload, is the action OnLoad of SpecReload.               *)
(***************************************************************************)
EXTENDS Integers, Sequences, FiniteSets, TLC

(* ------------------------------ bounds --------------------------------- *)
MaxTime == 2        \* time.time() ranges over 0..MaxTime
MaxTimeout == 1     \* timeouts range over 1..MaxTimeout
NumIds == 2         \* distinct values of uuid4().hex[:8] that are drawn
MaxLoads == 2       \* times the host calls on_load

\* A caller is one thread making one call of execute_and_wait.
Callers == {"c1", "c2"}
Ids == 1..NumIds
Timeouts == 1..MaxTimeout
NoCommand == "<None>"
Commands == {NoCommand, "list"}
BadPattern == "("
Patterns == {"A", ".*", BadPattern}
Lines == {<<>>, <<"B", "A">>}

(* ------------------------------ values --------------------------------- *)
\* Everything that travels through a Queue or is returned by a call is a
\* record of one shape, so that values of different Python types compare.
Val(k, s, a, b, p) == [kind |-> k, string |-> s, start |-> a, end |-> b, re |-> p]
None == Val("None", <<>>, 0, 0, "")
Str(s) == Val("str", s, 0, 0, "")
MatchObj(s, a, b, p) == Val("Match", s, a, b, p)
RuntimeError == Val("RuntimeError", <<>>, 0, 0, "")
ExecuteError == Val("ExecuteError", <<>>, 0, 0, "")
Pending == Val("pending", <<>>, 0, 0, "")

\* m.group(0): the matched substring of a match object
Group0(m) == SubSeq(m.string, m.start + 1, m.end)

(* ------------------------------ patterns ------------------------------- *)
CompileError == "re.error"

CompileLenient(pattern) == pattern

\* re.compile(pattern): raises re.error on an unparsable pattern
Compile(pattern) == IF pattern = BadPattern THEN CompileError ELSE pattern

\* pattern.search(content): the leftmost match, or None
Search(pattern, s) ==
    IF pattern = ".*" THEN MatchObj(s, 0, Len(s), pattern)
    ELSE IF \E i \in 1..Len(s) : s[i] = pattern
         THEN LET i == CHOOSE i \in 1..Len(s) :
                           /\ s[i] = pattern
                           /\ \A j \in 1..(i - 1) : s[j] # pattern
              IN MatchObj(s, i - 1, i, pattern)
         ELSE None

\* truth value of `command` in `if command:`
Truthy(command) == command # NoCommand /\ command # ""

(* ------------------------------ queries -------------------------------- *)
\* SimpleQuery; its Queue is the queue of the call of `owner` that built it.
\* `live` is cleared in the copies the delivery thread holds once that call
\* has returned: from then on nobody reads the Queue.
SimpleQuery(id, pattern, command, owner, start, timeout, rm) ==
    [query_id |-> id, pattern |-> pattern, command |-> command,
     owner |-> owner, live |-> TRUE, start_time |-> start,
     timeout |-> timeout, return_match |-> rm]
NoQuery == [SimpleQuery(0, "", NoCommand, "", 0, 0, FALSE) EXCEPT !.live = FALSE]

NoArgs == [command |-> NoCommand, pattern |-> "", timeout |-> 0,
           return_match |-> FALSE, on_executor |-> FALSE]

\* self.queries is a dict: a sequence of values in insertion order, at most
\* one per key query_id.
HasKey(d, id) == \E i \in 1..Len(d) : d[i].query_id = id

\* self.queries[query_id] = query: a present key keeps its position
DictSet(d, qr) ==
    IF HasKey(d, qr.query_id)
    THEN [i \in 1..Len(d) |-> IF d[i].query_id = qr.query_id THEN qr ELSE d[i]]
    ELSE Append(d, qr)

DictDelUnguarded(d, id) ==
    IF HasKey(d, id) THEN SelectSeq(d, LAMBDA e : e.query_id # id)
    ELSE SubSeq(d, 2, Len(d))

\* if query_id in self.queries: del self.queries[query_id]
DictDel(d, id) == SelectSeq(d, LAMBDA e : e.query_id # id)

ExpiredAtTimeout(qr, now) == now - qr.start_time >= qr.timeout

\* current_time - query.start_time > query.timeout
Expired(qr, now) == now - qr.start_time > qr.timeout

\* list.sort(key=start_time) is stable: e goes after every element whose
\* key is not larger
InsertSorted(acc, e) ==
    LET k == Cardinality({i \in 1..Len(acc) : acc[i].start_time <= e.start_time})
    IN SubSeq(acc, 1, k) \o <<e>> \o SubSeq(acc, k + 1, Len(acc))

RECURSIVE SortByStart(_)
SortByStart(s) ==
    IF s = <<>> THEN <<>>
    ELSE InsertSorted(SortByStart(SubSeq(s, 1, Len(s) - 1)), s[Len(s)])

GetValidQueriesUnsorted(d, now) == SelectSeq(d, LAMBDA e : ~Expired(e, now))

\* _get_valid_queries_sorted
GetValidQueriesSorted(d, now) ==
    SortByStart(SelectSeq(d, LAMBDA e : ~Expired(e, now)))

\* the loop of on_info: index of the first query whose pattern matches, or 0
FirstMatch(qs, s) ==
    IF \E i \in 1..Len(qs) : Search(qs[i].pattern, s) # None
    THEN CHOOSE i \in 1..Len(qs) :
            /\ Search(qs[i].pattern, s) # None
            /\ \A j \in 1..(i - 1) : Search(qs[j].pattern, s) = None
    ELSE 0

(* ------------------------------ lock -----------------------------------*)
\* threads: the callers and the delivery thread; NoThread holds a free lock
NoThread == "<free>"
DeliveryThread == "delivery"

\* `with self.lock:` can be entered by thread t: the RLock is free or t's
CanLock(l, t) == l \in {NoThread, t}

(* ------------------------------ state ---------------------------------- *)
VARIABLES
    cfg,                \* the inputs the environment draws from (never changes)
    clock,              \* time.time()
    queries,            \* self.queries of the ServerDataGetter root.command_getter names
    pc,                 \* position of each caller thread in execute_and_wait
    args,               \* arguments of each caller's current / last call
    query,              \* the SimpleQuery each caller built
    queue,              \* contents of the Queue of each caller's current / last call
    deadline,           \* end time of queue.get(timeout=timeout)
    got,                \* item each caller took from its queue
    ret,                \* what each caller's call returned or raised
    sent,               \* whether the call invoked server.execute
    dpc,                \* position of the delivery thread in on_info
    info,               \* the Info handed to the last on_info call
    content,            \* on_info local
    current_time,       \* on_info local
    matching_queries,   \* on_info local
    matched_query,      \* on_info local
    dreg,               \* the registry as _get_valid_queries_sorted saw it
    dputs,              \* queues on_info pushed a match onto for this line
    root,               \* the candy_tools package: its module globals
    loads,              \* how many times the host has called on_load
    self,               \* the ServerDataGetter each caller's call runs on
    old,                \* self.queries of each ServerDataGetter root no longer names
    lock                \* the thread that holds self.lock between two steps

vars == <<cfg, clock, queries, pc, args, query, queue, deadline, got, ret,
          sent, dpc, info, content, current_time, matching_queries,
          matched_query, dreg, dputs, root, loads, self, old, lock>>

callerVars == <<pc, self, args, query, deadline, got, ret, sent>>
deliveryVars == <<dpc, info, content, current_time, matching_queries,
                  matched_query, dreg, dputs>>

Start ==
    /\ clock = 0
    /\ queries = <<>>
    /\ pc = [c \in Callers |-> "idle"]
    /\ args = [c \in Callers |-> NoArgs]
    /\ query = [c \in Callers |-> NoQuery]
    /\ queue = [c \in Callers |-> <<>>]
    /\ deadline = [c \in Callers |-> 0]
    /\ got = [c \in Callers |-> Pending]
    /\ ret = [c \in Callers |-> Pending]
    /\ sent = [c \in Callers |-> FALSE]
    /\ dpc = "idle"
    /\ info = [content |-> <<>>, is_user |-> FALSE]
    /\ content = <<>>
    /\ current_time = 0
    /\ matching_queries = <<>>
    /\ matched_query = NoQuery
    /\ dreg = <<>>
    /\ dputs = {}
    /\ root = [command_getter |-> 1, has_carpet |-> "None"]
    /\ loads = 1
    /\ self = [c \in Callers |-> 0]
    /\ old = <<>>
    /\ lock = NoThread

\* the arguments one caller may pass, and whether it may be the delivery context
Inputs(commands, patterns, timeouts, return_match, on_executor) ==
    [commands |-> commands, patterns |-> patterns, timeouts |-> timeouts,
     return_match |-> return_match, on_executor |-> on_executor]

\* listen_and_wait_str(pattern, timeout) off the delivery context
Listener(patterns, timeouts) ==
    Inputs({NoCommand}, patterns, timeouts, {FALSE}, {FALSE})

\* what c1 and c2 may pass, and the lines the host may deliver
Environment(c1, c2, lines) ==
    [callers |-> [c \in Callers |-> IF c = "c1" THEN c1 ELSE c2], lines |-> lines]

\* two concurrent listeners, any pattern, any line
Init ==
    Start /\ cfg = Environment(Listener(Patterns, Timeouts),
                               Listener(Patterns, {MaxTimeout}), Lines)

\* c1 calls execute_and_wait_str with or without an action, with a good or
\* a bad pattern, from any thread, while c2 listens for any line
InitExec ==
    Start /\ cfg = Environment(
                      Inputs(Commands, {".*", BadPattern}, Timeouts, {FALSE}, BOOLEAN),
                      Listener({".*"}, {MaxTimeout}), {<<"B", "A">>})

\* c1 calls listen_and_wait with any pattern in either result mode, while
\* c2 listens for any line
InitShape ==
    Start /\ cfg = Environment(
                      Inputs({NoCommand}, Patterns, Timeouts, BOOLEAN, {FALSE}),
                      Listener({".*"}, {MaxTimeout}), Lines)

\* the ids in use: those of the queries some thread still holds
UsedIds ==
    {query[c].query_id : c \in Callers}
      \cup {matching_queries[i].query_id : i \in 1..Len(matching_queries)}
      \cup {matched_query.query_id}

\* uuid4().hex[:8] is a random 32-bit value: an id in use, or a fresh one;
\* fresh ids are interchangeable, so the smallest stands for all of them
NewIds == {i \in Ids : \A j \in 1..(i - 1) : j \in UsedIds}

\* queue.put(item) on the Queue of query qr; the Queue of a call that has
\* returned is garbage nobody reads.
Put(qs, qr, item) ==
    IF qr.live
    THEN [qs EXCEPT ![qr.owner] = Append(@, item)]
    ELSE qs

(* --------------------- execute_and_wait (caller c) --------------------- *)
EntryCheckCompileFirst(on_executor, pattern) ==
    IF Compile(pattern) = CompileError THEN "invalid"
    ELSE IF on_executor THEN "raise" ELSE "ok"

\* the two early exits of execute_and_wait, in the order the code takes them
EntryCheck(on_executor, pattern) ==
    IF on_executor THEN "raise"
    ELSE IF Compile(pattern) = CompileError THEN "invalid" ELSE "ok"

\* Entry of execute_and_wait up to the construction of the SimpleQuery:
\* thread check, uuid, re.compile, Queue(), time.time().  listen_and_wait is
\* the call with command = None.
Call(c, command, pattern, timeout, return_match, on_executor, id) ==
    /\ pc[c] = "idle"
    /\ clock + timeout <= MaxTime
    /\ self' = [self EXCEPT ![c] = root.command_getter]
    /\ args' = [args EXCEPT ![c] =
                  [command |-> command, pattern |-> pattern, timeout |-> timeout,
                   return_match |-> return_match, on_executor |-> on_executor]]
    /\ LET check == EntryCheck(on_executor, pattern) IN
         CASE check = "raise" ->
                /\ ret' = [ret EXCEPT ![c] = RuntimeError]
                /\ query' = query
                /\ pc' = [pc EXCEPT ![c] = "exit"]
           [] check = "invalid" ->
                /\ ret' = [ret EXCEPT ![c] = None]
                /\ query' = query
                /\ pc' = [pc EXCEPT ![c] = "exit"]
           [] OTHER ->
                /\ ret' = ret
                /\ query' = [query EXCEPT ![c] =
                       SimpleQuery(id, Compile(pattern), command, c,
                                   clock, timeout, return_match)]
                /\ pc' = [pc EXCEPT ![c] = "register"]
    /\ UNCHANGED <<cfg, lock, root, loads, old, clock, queries, queue, deadline, got, sent>>
    /\ UNCHANGED deliveryVars

\* the call is over: its locals and its Queue are dropped, and the copies of
\* its query the delivery thread still holds lose their reader
Forget(c) ==
    /\ pc' = [pc EXCEPT ![c] = "done"]
    /\ self' = [self EXCEPT ![c] = 0]
    /\ args' = [args EXCEPT ![c] = NoArgs]
    /\ query' = [query EXCEPT ![c] = NoQuery]
    /\ queue' = [queue EXCEPT ![c] = <<>>]
    /\ deadline' = [deadline EXCEPT ![c] = 0]
    /\ got' = [got EXCEPT ![c] = Pending]
    /\ ret' = [ret EXCEPT ![c] = Pending]
    /\ sent' = [sent EXCEPT ![c] = FALSE]
    /\ matching_queries' = [i \in 1..Len(matching_queries) |->
            IF matching_queries[i].owner = c
            THEN [matching_queries[i] EXCEPT !.live = FALSE]
            ELSE matching_queries[i]]
    /\ matched_query' = IF matched_query.owner = c
                        THEN [matched_query EXCEPT !.live = FALSE]
                        ELSE matched_query

\* the raise / return None of an early exit reaches the caller's caller
Exit(c) ==
    /\ pc[c] = "exit"
    /\ Forget(c)
    /\ UNCHANGED <<cfg, lock, root, loads, old, clock, queries>>
    /\ UNCHANGED <<dpc, info, content, current_time, dreg, dputs>>

RegisterKeepingLock(c) ==
    /\ pc[c] = "register"
    /\ CanLock(lock, c)
    /\ queries' = DictSet(queries, query[c])
    /\ lock' = c
    /\ pc' = [pc EXCEPT ![c] = "act"]
    /\ UNCHANGED <<cfg, root, loads, old, clock, self, args, query, queue, deadline,
                   got, ret, sent>>
    /\ UNCHANGED deliveryVars

RegisterNothing(c) ==
    /\ pc[c] = "register"
    /\ UNCHANGED <<queries, old>>
    /\ pc' = [pc EXCEPT ![c] = "act"]
    /\ UNCHANGED <<cfg, lock, root, loads, clock, self, args, query, queue, deadline, got, ret, sent>>
    /\ UNCHANGED deliveryVars

\* with self.lock: self.queries[query_id] = query
Register(c) ==
    /\ pc[c] = "register"
    /\ CanLock(lock, c)
    /\ IF self[c] = root.command_getter
       THEN /\ queries' = DictSet(queries, query[c])
            /\ old' = old
       ELSE /\ queries' = queries
            /\ old' = [old EXCEPT ![self[c]] = DictSet(@, query[c])]
    /\ pc' = [pc EXCEPT ![c] = "act"]
    /\ UNCHANGED <<cfg, lock, root, loads, clock, self, args, query, queue, deadline, got, ret, sent>>
    /\ UNCHANGED deliveryVars

\* if command: self.server.execute(command), which may raise; then
\* queue.get(timeout=timeout) starts and fixes its end time
Act(c, raises) ==
    /\ pc[c] = "act"
    /\ IF Truthy(query[c].command)
       THEN /\ sent' = [sent EXCEPT ![c] = TRUE]
            /\ IF raises
               THEN /\ ret' = [ret EXCEPT ![c] = ExecuteError]
                    /\ pc' = [pc EXCEPT ![c] = "finally"]
                    /\ deadline' = deadline
               ELSE /\ ret' = ret
                    /\ pc' = [pc EXCEPT ![c] = "wait"]
                    /\ deadline' = [deadline EXCEPT ![c] = clock + query[c].timeout]
       ELSE /\ ~raises
            /\ sent' = sent
            /\ ret' = ret
            /\ pc' = [pc EXCEPT ![c] = "wait"]
            /\ deadline' = [deadline EXCEPT ![c] = clock + query[c].timeout]
    /\ UNCHANGED <<cfg, lock, root, loads, old, clock, queries, self, args, query, queue, got>>
    /\ UNCHANGED deliveryVars

ShapeTruthy(return_match, result) ==
    IF return_match THEN result
    ELSE IF result.kind = "str" /\ result.string # <<>> THEN result ELSE None

\* the value execute_and_wait returns for the item it took from the queue
Shape(return_match, result) ==
    IF return_match THEN result
    ELSE IF result.kind = "str" THEN result ELSE None

GetNoTimeout(c) ==
    /\ pc[c] = "wait"
    /\ queue[c] # <<>>
    /\ got' = [got EXCEPT ![c] = Head(queue[c])]
    /\ queue' = [queue EXCEPT ![c] = Tail(@)]
    /\ ret' = [ret EXCEPT ![c] = Shape(query[c].return_match, Head(queue[c]))]
    /\ pc' = [pc EXCEPT ![c] = "finally"]
    /\ UNCHANGED <<cfg, lock, root, loads, old, clock, queries, self, args, query, deadline, sent>>
    /\ UNCHANGED deliveryVars

\* queue.get(timeout=timeout): an item, or Empty once the end time is reached
Get(c) ==
    /\ pc[c] = "wait"
    /\ IF queue[c] # <<>>
       THEN /\ got' = [got EXCEPT ![c] = Head(queue[c])]
            /\ queue' = [queue EXCEPT ![c] = Tail(@)]
            /\ ret' = [ret EXCEPT ![c] = Shape(query[c].return_match, Head(queue[c]))]
       ELSE /\ clock >= deadline[c]
            /\ got' = got
            /\ queue' = queue
            /\ ret' = [ret EXCEPT ![c] = None]
    /\ pc' = [pc EXCEPT ![c] = "finally"]
    /\ UNCHANGED <<cfg, lock, root, loads, old, clock, queries, self, args, query, deadline, sent>>
    /\ UNCHANGED deliveryVars

FinallyNoCleanup(c) ==
    /\ pc[c] = "finally"
    /\ queries' = queries
    /\ old' = old
    /\ Forget(c)
    /\ UNCHANGED <<cfg, lock, root, loads, clock>>
    /\ UNCHANGED <<dpc, info, content, current_time, dreg, dputs>>

\* finally: with self.lock: if query_id in self.queries: del ...; then the
\* call returns ret[c] (or re-raises it)
Finally(c) ==
    /\ pc[c] = "finally"
    /\ CanLock(lock, c)
    /\ IF self[c] = root.command_getter
       THEN /\ queries' = DictDel(queries, query[c].query_id)
            /\ old' = old
       ELSE /\ queries' = queries
            /\ old' = [old EXCEPT ![self[c]] = DictDel(@, query[c].query_id)]
    /\ Forget(c)
    /\ UNCHANGED <<cfg, lock, root, loads, clock>>
    /\ UNCHANGED <<dpc, info, content, current_time, dreg, dputs>>

\* get_pending_count
GetPendingCount == Len(queries)

(* --------------------- on_info (delivery thread) ----------------------- *)
ReturnInfo ==
    /\ dpc' = "idle"
    /\ info' = [content |-> <<>>, is_user |-> FALSE]
    /\ content' = <<>>
    /\ current_time' = 0
    /\ matching_queries' = <<>>
    /\ matched_query' = NoQuery
    /\ dreg' = <<>>
    /\ dputs' = {}

OnInfoAnyOrigin(line, is_user) ==
    /\ dpc = "idle"
    /\ info' = [content |-> line, is_user |-> is_user]
    /\ dpc' = "cleanup"
    /\ content' = line
    /\ current_time' = clock
    /\ UNCHANGED <<cfg, lock, root, loads, old, clock, queries, queue,
                   matching_queries, matched_query, dreg, dputs>>
    /\ UNCHANGED callerVars

\* if info.is_user: return; content = info.content; current_time = time.time()
OnInfo(line, is_user) ==
    /\ dpc = "idle"
    /\ info' = [content |-> line, is_user |-> is_user]
    /\ IF is_user
       THEN /\ dpc' = "return"
            /\ UNCHANGED <<content, current_time>>
       ELSE /\ dpc' = "cleanup"
            /\ content' = line
            /\ current_time' = clock
    /\ UNCHANGED <<cfg, lock, root, loads, old, clock, queries, queue, matching_queries, matched_query,
                   dreg, dputs>>
    /\ UNCHANGED callerVars

\* on_info returns to the host
Return ==
    /\ dpc = "return"
    /\ ReturnInfo
    /\ UNCHANGED <<cfg, lock, root, loads, old, clock, queries, queue>>
    /\ UNCHANGED callerVars

CleanupSilent ==
    /\ dpc = "cleanup"
    /\ queue' = queue
    /\ queries' = SelectSeq(queries, LAMBDA e : ~Expired(e, current_time))
    /\ dpc' = "snapshot"
    /\ UNCHANGED <<cfg, lock, root, loads, old, clock, info, content, current_time,
                   matching_queries, matched_query, dreg, dputs>>
    /\ UNCHANGED callerVars

\* _cleanup_timeouts: Queue() is unbounded, so queue.full() is always False
\* and None is always put
CleanupTimeouts ==
    /\ dpc = "cleanup"
    /\ CanLock(lock, DeliveryThread)
    /\ LET timeout_ids == {i \in 1..Len(queries) : Expired(queries[i], current_time)}
       IN /\ queue' = [c \in Callers |->
                        IF \E i \in timeout_ids :
                              queries[i].owner = c /\ queries[i].live
                        THEN Append(queue[c], None) ELSE queue[c]]
          /\ queries' = SelectSeq(queries, LAMBDA e : ~Expired(e, current_time))
    /\ dpc' = "snapshot"
    /\ UNCHANGED <<cfg, lock, root, loads, old, clock, info, content, current_time, matching_queries,
                   matched_query, dreg, dputs>>
    /\ UNCHANGED callerVars

\* matching_queries = self._get_valid_queries_sorted(current_time)
Snapshot ==
    /\ dpc = "snapshot"
    /\ CanLock(lock, DeliveryThread)
    /\ matching_queries' = GetValidQueriesSorted(queries, current_time)
    /\ dreg' = queries
    /\ dpc' = "scan"
    /\ UNCHANGED <<cfg, lock, root, loads, old, clock, queries, queue, info, content, current_time,
                   matched_query, dputs>>
    /\ UNCHANGED callerVars

\* what on_info puts on the queue of the matched query
Result(qr, s, m) == IF qr.return_match THEN m ELSE Str(s)

ScanAll ==
    /\ dpc = "scan"
    /\ LET hits == {i \in 1..Len(matching_queries) :
                       Search(matching_queries[i].pattern, content) # None}
       IN IF hits = {}
          THEN /\ ReturnInfo
               /\ UNCHANGED <<queue>>
          ELSE /\ queue' = [c \in Callers |->
                     IF \E i \in hits : /\ matching_queries[i].owner = c
                                        /\ matching_queries[i].live
                     THEN Append(queue[c], Str(content)) ELSE queue[c]]
               /\ dputs' = dputs \cup {matching_queries[i].owner : i \in hits}
               /\ matched_query' = matching_queries[CHOOSE i \in hits : TRUE]
               /\ dpc' = "remove"
               /\ UNCHANGED <<content, current_time, matching_queries, dreg, info>>
    /\ UNCHANGED <<cfg, lock, root, loads, old, clock, queries>>
    /\ UNCHANGED callerVars

\* the for loop up to its break, and the queue.put of the result
Scan ==
    /\ dpc = "scan"
    /\ LET i == FirstMatch(matching_queries, content) IN
         IF i = 0
         THEN /\ ReturnInfo
              /\ UNCHANGED <<queue>>
         ELSE LET qr == matching_queries[i]
                  m == Search(qr.pattern, content)
              IN /\ queue' = Put(queue, qr, Result(qr, content, m))
                 /\ dputs' = dputs \cup {qr.owner}
                 /\ matched_query' = qr
                 /\ dpc' = "remove"
                 /\ UNCHANGED <<content, current_time, matching_queries, dreg, info>>
    /\ UNCHANGED <<cfg, lock, root, loads, old, clock, queries>>
    /\ UNCHANGED callerVars

RemoveSkipped ==
    /\ dpc = "remove"
    /\ queries' = queries
    /\ ReturnInfo
    /\ UNCHANGED <<cfg, lock, root, loads, old, clock, queue>>
    /\ UNCHANGED callerVars

\* with self.lock: if matched_query.query_id in self.queries: del ...
Remove ==
    /\ dpc = "remove"
    /\ CanLock(lock, DeliveryThread)
    /\ queries' = DictDel(queries, matched_query.query_id)
    /\ ReturnInfo
    /\ UNCHANGED <<cfg, lock, root, loads, old, clock, queue>>
    /\ UNCHANGED callerVars

(* ------------------------------ time ----------------------------------- *)
\* Time passes.  It stops short of the horizon MaxTime for as long as a call
\* that has not started its wait could otherwise not finish its wait by then.
Tick ==
    /\ clock < MaxTime
    /\ \A c \in Callers :
          pc[c] \in {"register", "act"} => clock + 1 + query[c].timeout <= MaxTime
    /\ clock' = clock + 1
    /\ UNCHANGED <<cfg, lock, root, loads, old, queries, queue>>
    /\ UNCHANGED callerVars
    /\ UNCHANGED deliveryVars

(* ------------------------- entry.py: on_load --------------------------- *)
\* The plugin instance the host hands to on_load as `prev` is the module
\* that defines the listeners, entry.py: a mapping of its global names.
EntryAttrs == {"threading", "root", "PluginServerInterface", "new_thread",
               "ServerDataGetter", "on_load", "on_info", "on_server_start",
               "has_carpet_on_server_start"}
EntryModule == [n \in EntryAttrs |-> n]

\* hasattr(prev, name)
HasAttr(prev, name) == name \in DOMAIN prev

\* on_load(server, prev) of a reload: the package has been imported anew
\* (command_getter = None, has_carpet = None); the host calls its listeners
\* one at a time, so no on_info is in progress.
OnLoad(prev) ==
    /\ dpc = "idle"
    /\ loads < MaxLoads
    /\ loads' = loads + 1
    /\ IF HasAttr(prev, "command_getter")
       THEN /\ root' = [command_getter |-> prev["command_getter"],
                        has_carpet |-> prev["has_carpet"]]
            /\ UNCHANGED <<queries, old>>
       ELSE /\ root' = [command_getter |-> Len(old) + 2, has_carpet |-> "None"]
            /\ old' = Append(old, queries)
            /\ queries' = <<>>
    /\ UNCHANGED <<cfg, lock, clock, queue>>
    /\ UNCHANGED callerVars
    /\ UNCHANGED deliveryVars

(* --------------------------- specification ----------------------------- *)
CallerStep(c) ==
    \/ \E command \in cfg.callers[c].commands,
          pattern \in cfg.callers[c].patterns,
          timeout \in cfg.callers[c].timeouts,
          return_match \in cfg.callers[c].return_match,
          on_executor \in cfg.callers[c].on_executor, id \in NewIds :
          Call(c, command, pattern, timeout, return_match, on_executor, id)
    \/ Exit(c)
    \/ Register(c)
    \/ \E raises \in BOOLEAN : Act(c, raises)
    \/ Get(c)
    \/ Finally(c)

DeliveryStep ==
    \/ \E line \in cfg.lines, is_user \in BOOLEAN : OnInfo(line, is_user)
    \/ Return
    \/ CleanupTimeouts
    \/ Snapshot
    \/ Scan
    \/ Remove

Next ==
    \/ \E c \in Callers : CallerStep(c)
    \/ DeliveryStep
    \/ Tick

Spec == Init /\ [][Next]_vars

\* A caller thread that can take a step eventually takes it, and time does
\* not stop; nothing is assumed of the delivery thread.
Progress(c) ==
    /\ WF_vars(Register(c))
    /\ WF_vars(\E raises \in BOOLEAN : Act(c, raises))
    /\ WF_vars(Get(c))
    /\ WF_vars(Finally(c))

SpecExec == InitExec /\ [][Next]_vars

SpecShape == InitShape /\ [][Next]_vars

\* two concurrent listeners for any line, c1 possibly with a bad pattern
InitLive ==
    Start /\ cfg = Environment(Listener({".*", BadPattern}, Timeouts),
                               Listener({".*"}, {MaxTimeout}), {<<"B", "A">>})

LiveSpec == InitLive /\ [][Next]_vars /\ WF_vars(Tick) /\ \A c \in Callers : Progress(c)

\* two listeners for any line, c1 possibly with a bad pattern, and the host
\* reloading the plugin
InitReload ==
    Start /\ cfg = Environment(Listener({".*", BadPattern}, Timeouts),
                               Listener({".*"}, {MaxTimeout}), {<<"B", "A">>})

NextReload ==
    \/ Next
    \/ OnLoad(EntryModule)

SpecReload == InitReload /\ [][NextReload]_vars

\* c1 listens for any line in either result mode, possibly with a bad
\* pattern, while c2 listens for any line
InitPurge ==
    Start /\ cfg = Environment(
                      Inputs({NoCommand}, {".*", BadPattern}, Timeouts, BOOLEAN, {FALSE}),
                      Listener({".*"}, {MaxTimeout}), {<<"B", "A">>})

\* caller threads keep running; time may stand still and on_info may never
\* be called again
SpecPurge == InitPurge /\ [][Next]_vars /\ \A c \in Callers : Progress(c)

\* c1 calls execute_and_wait_str with a command, with the empty string or
\* with None, with a good or a bad pattern, while c2 listens for any line
InitAct ==
    Start /\ cfg = Environment(
                      Inputs({NoCommand, "", "list"}, {".*", BadPattern}, Timeouts,
                             {FALSE}, {FALSE}),
                      Listener({".*"}, {MaxTimeout}), {<<"B", "A">>})

SpecAct == InitAct /\ [][Next]_vars

TypeOK ==
    /\ clock \in 0..MaxTime
    /\ \A c \in Callers : pc[c] \in {"idle", "done", "exit", "register", "act", "wait", "finally"}
    /\ dpc \in {"idle", "return", "cleanup", "snapshot", "scan", "remove"}
    /\ loads \in 1..MaxLoads
    /\ lock \in Callers \cup {NoThread, DeliveryThread}
    /\ root.command_getter = Len(old) + 1
    /\ \A c \in Callers : self[c] \in 0..root.command_getter

(* =============================== claims ================================ *)
\* the on_info step that tests the patterns and pushes the result
ScanStep == dpc = "scan" /\ dpc' # "scan"
\* the on_info step that deletes the matched query from the registry
RemoveStep == dpc = "remove" /\ dpc' # "remove"

Snap == {matching_queries[i] : i \in 1..Len(matching_queries)}
MatchesLine(qr) == Search(qr.pattern, content) # None
\* position of the query of `owner` in the registry the snapshot was taken from
RegPos(owner) == CHOOSE i \in 1..Len(dreg) : dreg[i].owner = owner
RegisteredBefore(a, b) == RegPos(a.owner) < RegPos(b.owner)
StartedBefore(a, b) ==
    \/ a.start_time < b.start_time
    \/ a.start_time = b.start_time /\ RegisteredBefore(a, b)

\* the line goes to a and to nobody else, and b is left alone
DeliveredToOnly(a, b) ==
    /\ matched_query' = a
    /\ dputs' = {a.owner}
    /\ a.live => queue' = [queue EXCEPT ![a.owner] = Append(@, Result(a, content, Search(a.pattern, content)))]
    /\ queue'[b.owner] = queue[b.owner]
    /\ queries' = queries

\* C1 (as stated): of two unexpired registered queries whose patterns both
\* match the line, the one inserted into the registry first receives the
\* line, and the other is left pending with its queue untouched.
C1_RegistrationOrderWins ==
    [][ScanStep =>
         \A a \in Snap, b \in Snap :
            (a # b /\ MatchesLine(a) /\ MatchesLine(b) /\ RegisteredBefore(a, b))
               => DeliveredToOnly(a, b)]_vars

\* C1 (amended): of two unexpired registered queries whose patterns both
\* match the line, the one with the earlier start_time (on equal start_time,
\* the one inserted first) is the only one of the two that can receive the
\* line; it receives it when no query started before it matches, it alone is
\* then removed, and the other stays in the registry with its queue untouched.
C1_StartTimeOrderWins ==
    [][/\ ScanStep =>
            \A a \in Snap, b \in Snap :
               (a # b /\ MatchesLine(a) /\ MatchesLine(b) /\ StartedBefore(a, b))
                  => /\ queue'[b.owner] = queue[b.owner]
                     /\ b.owner \notin dputs'
                     /\ queries' = queries
                     /\ (\A e \in Snap : StartedBefore(e, a) => ~MatchesLine(e))
                           => DeliveredToOnly(a, b)
       /\ RemoveStep =>
            /\ ~HasKey(queries', matched_query.query_id)
            /\ \A i \in 1..Len(queries) :
                  queries[i].query_id # matched_query.query_id
                     => \E j \in 1..Len(queries') : queries'[j] = queries[i]
            /\ queue' = queue]_vars

\* two matching queries in the snapshot, the one inserted second having
\* captured its start_time first, and the line delivered
C1_Witness ==
    /\ dpc = "remove"
    /\ Len(matching_queries) = 2
    /\ \A e \in Snap : MatchesLine(e) /\ e.live
    /\ matching_queries[1].start_time < matching_queries[2].start_time
    /\ RegisteredBefore(matching_queries[2], matching_queries[1])
    /\ matched_query = matching_queries[1]
    /\ queue[matching_queries[1].owner] # <<>>
    /\ queue[matching_queries[2].owner] = <<>>

\* C2: while on_info processes one line, a match result (line or match
\* object) is pushed onto the queue of at most one query, whatever the
\* patterns; every push of a match is a push of that one step.
C2_AtMostOneMatchPerLine ==
    [][/\ Cardinality(dputs') <= 1
       /\ \A c \in Callers :
             (Len(queue'[c]) > Len(queue[c]) /\ queue'[c][Len(queue'[c])] # None)
                => /\ ScanStep
                   /\ dputs' = {c}
                   /\ \A d \in Callers \ {c} : queue'[d] = queue[d]]_vars

\* a line that two pending queries match has been delivered to one of them
C2_Witness ==
    /\ dpc = "remove"
    /\ Len(matching_queries) = 2
    /\ \A e \in Snap : MatchesLine(e) /\ e.live
    /\ matching_queries[1].start_time = matching_queries[2].start_time
    /\ Cardinality(dputs) = 1
    /\ Cardinality({c \in Callers : queue[c] # <<>>}) = 1

\* a caller about to return, in its finally block
Returning(c) == pc[c] = "finally"

\* C3 (as stated): matched and timed-out exclude each other on both sides:
\* a call that returns the sentinel never has a match pushed onto its
\* queue, and on_info pushes a match only onto a queue its caller will read.
C3_ExactlyOneOutcome ==
    /\ \A c \in Callers :
          (Returning(c) /\ ret[c] = None)
             => \A i \in 1..Len(queue[c]) : queue[c][i] = None
    /\ dpc = "remove" => matched_query.live

\* C4: when a call that registered a query returns or raises, its query id
\* is not in the registry; every registry entry belongs to a call in flight,
\* and get_pending_count() is 0 when no call is in flight.
C4_CleanupOnEveryExit ==
    /\ [][\A c \in Callers :
             (pc[c] = "finally" /\ pc'[c] = "done")
                => ~HasKey(queries', query[c].query_id)]_vars
    /\ [](\A i \in 1..Len(queries) :
             /\ pc[queries[i].owner] \in {"act", "wait", "finally"}
             /\ query[queries[i].owner] = queries[i])
    /\ []((\A c \in Callers : pc[c] \in {"idle", "exit", "done"})
             => GetPendingCount = 0)

\* server.execute has raised and the call is leaving through finally while
\* another query is pending
C4_Witness ==
    /\ pc["c1"] = "finally"
    /\ ret["c1"] = ExecuteError
    /\ HasKey(queries, query["c1"].query_id)
    /\ pc["c2"] = "wait"
    /\ Len(queries) = 2

\* C5: a call that has registered its query returns even if on_info is
\* never called again; a wait that ends with nothing on the queue ends at
\* its own deadline and returns None.
C5_TimeoutBackstop ==
    /\ \A c \in Callers : (pc[c] \in {"act", "wait", "finally"}) ~> (pc[c] = "done")
    /\ [][\A c \in Callers :
             (pc[c] = "wait" /\ pc'[c] # "wait" /\ queue[c] = <<>>)
                => /\ clock >= deadline[c]
                   /\ deadline[c] >= query[c].start_time + query[c].timeout
                   /\ ret'[c] = None
                   /\ pc'[c] = "finally"]_vars

\* a call whose own wait ran out, no line having been processed meanwhile
C5_Witness ==
    /\ pc["c1"] = "finally"
    /\ ret["c1"] = None
    /\ got["c1"] = Pending
    /\ queue["c1"] = <<>>
    /\ dpc = "idle"
    /\ clock = query["c1"].start_time + query["c1"].timeout

\* C6 (as stated): the id of a query being registered is not a key of the
\* registry, so registration never replaces an entry.
C6_IdUnique ==
    [][\A c \in Callers :
          (pc[c] = "register" /\ pc'[c] = "act")
             => /\ ~HasKey(queries, query[c].query_id)
                /\ Len(queries') = Len(queries) + 1]_vars

\* a call beginning: execute_and_wait entered by caller c
CallStep(c) == pc[c] = "idle" /\ pc'[c] # "idle"
\* an early exit reaching the caller's caller
ExitStep(c) == pc[c] = "exit" /\ pc'[c] # "exit"

\* nothing of the shared state is touched and the caller does not block
Untouched(c) ==
    /\ queries' = queries
    /\ queue' = queue
    /\ sent' = sent
    /\ query' = query
    /\ pc'[c] = "exit"

\* C7: a call from the delivery context raises at once, whatever the pattern
\* (so before it is compiled): nothing is registered, the action sink is not
\* invoked, the caller does not block.
C7_ReentrancyFailsFast ==
    [][\A c \in Callers :
          /\ (CallStep(c) /\ args'[c].on_executor)
                => (ret'[c] = RuntimeError /\ Untouched(c))
          /\ (ExitStep(c) /\ args[c].on_executor)
                => (queries' = queries /\ ~sent[c] /\ pc'[c] = "done")]_vars

\* a call from the delivery context with an unparsable pattern and an action
\* has raised, while another query is pending
C7_Witness ==
    /\ pc["c1"] = "exit"
    /\ args["c1"].on_executor
    /\ args["c1"].pattern = BadPattern
    /\ args["c1"].command = "list"
    /\ ret["c1"] = RuntimeError
    /\ queries # <<>>

\* C8: a call off the delivery context with a pattern that fails to compile
\* returns None at once: nothing is registered, the action sink is not
\* invoked even if an action was given, the caller does not block.
C8_InvalidPattern ==
    [][\A c \in Callers :
          /\ (CallStep(c) /\ ~args'[c].on_executor /\ args'[c].pattern = BadPattern)
                => (ret'[c] = None /\ Untouched(c))
          /\ (ExitStep(c) /\ ~args[c].on_executor)
                => (queries' = queries /\ ~sent[c] /\ pc'[c] = "done"
                    /\ args[c].pattern = BadPattern)]_vars

\* a call with an action and an unparsable pattern has returned None, while
\* another query is pending
C8_Witness ==
    /\ pc["c1"] = "exit"
    /\ ~args["c1"].on_executor
    /\ args["c1"].pattern = BadPattern
    /\ args["c1"].command = "list"
    /\ ret["c1"] = None
    /\ ~sent["c1"]
    /\ queries # <<>>

\* C9: the item on_info pushes for a matched query is the whole line for
\* return_match=False and the match object for return_match=True; the call
\* returns the item it takes unchanged (the empty line included), and
\* returns None for the purge sentinel and for its own timeout; None differs
\* from every delivered result.
C9_ResultShape ==
    [][/\ ScanStep =>
            \A c \in dputs' :
               matched_query'.live =>
                  LET x == queue'[c][Len(queue'[c])] IN
                    /\ x # None
                    /\ x.string = content
                    /\ IF matched_query'.return_match
                       THEN /\ x.kind = "Match"
                            /\ x.re = matched_query'.pattern
                            /\ Group0(x) \in {SubSeq(content, i, j) :
                                                i \in 1..(Len(content) + 1),
                                                j \in 0..Len(content)}
                       ELSE x = Str(content)
       /\ \A c \in Callers :
             (pc[c] = "wait" /\ pc'[c] # "wait") =>
                IF queue[c] = <<>> THEN ret'[c] = None
                ELSE LET x == Head(queue[c]) IN
                       /\ got'[c] = x
                       /\ ret'[c] = x
                       /\ x # None =>
                            (x.kind = IF query[c].return_match THEN "Match" ELSE "str")]_vars

\* a return_match=False caller is returning the empty line it was delivered
C9_Witness ==
    /\ pc["c1"] = "finally"
    /\ ~query["c1"].return_match
    /\ got["c1"] = Str(<<>>)
    /\ ret["c1"] = Str(<<>>)
    /\ ret["c1"] # None

\* C10 (as stated): a query whose caller is blocked waiting and which has
\* been neither matched nor purged is in the registry.
C10_NoUndercount ==
    \A c \in Callers :
       (pc[c] = "wait" /\ queue[c] = <<>>)
          => \E i \in 1..Len(queries) : queries[i] = query[c]

\* the finally block of caller c running
FinallyStep(c) == pc[c] = "finally" /\ pc'[c] = "done"
\* _cleanup_timeouts running
CleanupStep == dpc = "cleanup" /\ dpc' # "cleanup"

\* every entry of registry d but the one with key id is in e, in d's order
OthersKept(d, e, id) == e = SelectSeq(d, LAMBDA x : x.query_id # id)

C11_WitnessMatchPath ==
    /\ dpc = "remove"
    /\ matched_query.owner = "c1"
    /\ pc["c1"] = "done"
    /\ ~HasKey(queries, matched_query.query_id)
    /\ Len(queries) = 1

\* on_load returning
ReloadStep == loads' # loads

\* C12 (as stated): when on_load is called with the previous plugin instance
\* while queries are pending, root.command_getter is afterwards the
\* ServerDataGetter that holds them: the one their calls run on, with every
\* one of them still in the registry on_info reads.
C12_QueriesSurviveReload ==
    [][(ReloadStep /\ queries # <<>>) =>
          /\ root'.command_getter = root.command_getter
          /\ queries' = queries
          /\ \A i \in 1..Len(queries) :
                self'[queries[i].owner] = root'.command_getter]_vars

\* how many items the Queue of c's call has received so far
Received(c) == Len(queue[c]) + (IF got[c] = Pending THEN 0 ELSE 1)

\* C13: with one delivery thread, the Queue of a call receives at most one
\* item over the call's lifetime, a match or the sentinel; a push goes onto
\* an empty Queue nothing was taken from, and _cleanup_timeouts pushes
\* nothing onto a Queue that holds an item.
C13_WrittenAtMostOnce ==
    /\ [](\A c \in Callers : Received(c) <= 1)
    /\ [][\A c \in Callers :
             Len(queue'[c]) > Len(queue[c])
                => /\ queue[c] = <<>>
                   /\ got[c] = Pending
                   /\ Len(queue'[c]) = 1
                   /\ CleanupStep \/ ScanStep]_vars

\* c1's call holds the line on_info delivered and has not taken it yet; a
\* later on_info, at a time when the query's age is past its timeout, has
\* run _cleanup_timeouts and pushed no sentinel
C13_Witness ==
    /\ pc["c1"] = "wait"
    /\ queue["c1"] = <<Str(<<"B", "A">>)>>
    /\ dpc = "snapshot"
    /\ Expired(query["c1"], current_time)
    /\ pc["c2"] = "wait"

\* the step of on_info that pushes a match result
PushStep == ScanStep /\ dpc' = "remove"

\* C14 (as stated): on_info pushes a result only onto the queue of a query
\* whose id is in the registry at that moment, on the match path as on the
\* purge path; the purge removes each query in the step that pushes its
\* sentinel.
C14_AtomicDelivery ==
    [][/\ PushStep => HasKey(queries, matched_query'.query_id)
       /\ CleanupStep =>
             \A c \in Callers :
                queue'[c] # queue[c] =>
                   /\ \E i \in 1..Len(queries) : queries[i].owner = c
                   /\ \A i \in 1..Len(queries') : queries'[i].owner # c]_vars

\* the step of on_info that takes the snapshot
SnapshotStep == dpc = "snapshot" /\ dpc' # "snapshot"
\* age of query qr at the time on_info captured
Age(qr) == current_time - qr.start_time
Entries(d) == {d[i] : i \in 1..Len(d)}

\* C15: _cleanup_timeouts removes from the registry exactly the queries
\* whose age at the captured time exceeds their timeout, and keeps a query
\* whose age equals its timeout; it has run before the snapshot is taken;
\* the snapshot holds exactly the registered queries of age <= timeout;
\* patterns are tested on the snapshot only, and the query that receives
\* the line has age <= timeout.
C15_PurgeBeforeMatch ==
    [][/\ CleanupStep =>
             /\ Entries(queries') = {e \in Entries(queries) : Age(e) <= e.timeout}
             /\ dpc' = "snapshot"
       /\ SnapshotStep =>
             /\ Entries(matching_queries') = {e \in Entries(queries) : Age(e) <= e.timeout}
             /\ dpc' = "scan"
       /\ ScanStep =>
             /\ \A e \in Snap : Age(e) <= e.timeout
             /\ \A c \in Callers :
                   queue'[c] # queue[c] => \E e \in Snap : e.owner = c
       /\ PushStep =>
             /\ Age(matched_query') <= matched_query'.timeout
             /\ matched_query' \in Snap
       /\ (dpc' = "scan" /\ dpc # "scan") => dpc = "snapshot"
       /\ (dpc' = "snapshot" /\ dpc # "snapshot") => dpc = "cleanup"]_vars

\* on_info at time 2: c1's query (age 2, timeout 1) was purged and c2's
\* query, whose age equals its timeout, received the line
C15_Witness ==
    /\ dpc = "remove"
    /\ matched_query = query["c2"]
    /\ Age(matched_query) = matched_query.timeout
    /\ queue["c2"] # <<>>
    /\ pc["c1"] = "wait"
    /\ Age(query["c1"]) > query["c1"].timeout
    /\ Search(query["c1"].pattern, content) # None
    /\ queue["c1"] = <<None>>
    /\ ~HasKey(queries, query["c1"].query_id)

\* caller c's queue.get returning or raising Empty
GetStep(c) == pc[c] = "wait" /\ pc'[c] # "wait"

\* C16: _cleanup_timeouts removes every registered query whose age exceeds
\* its timeout and pushes None onto its queue in the same step; a caller
\* blocked on a queue holding that None takes it and returns None whether
\* return_match is set or not, and does so even if time stands still, so
\* without waiting for the timeout of its own queue.get.
C16_PurgeResolvesCaller ==
    /\ [][CleanupStep =>
             \A e \in Entries(queries) :
                Age(e) > e.timeout =>
                   /\ e \notin Entries(queries')
                   /\ queue'[e.owner] = Append(queue[e.owner], None)]_vars
    /\ [][\A c \in Callers :
             (GetStep(c) /\ queue[c] # <<>> /\ Head(queue[c]) = None)
                => /\ ret'[c] = None
                   /\ got'[c] = None
                   /\ pc'[c] = "finally"]_vars
    /\ \A c \in Callers :
          (pc[c] = "wait" /\ queue[c] = <<None>>) ~> (pc[c] = "done")

\* c1, called with return_match=True, was purged by on_info, took the
\* sentinel and is returning None
C16_Witness ==
    /\ pc["c1"] = "finally"
    /\ query["c1"].return_match
    /\ got["c1"] = None
    /\ ret["c1"] = None
    /\ ~HasKey(queries, query["c1"].query_id)
    /\ dpc \in {"snapshot", "scan"}
    /\ Age(query["c1"]) > query["c1"].timeout

\* caller c inserting its query into the registry
RegisterStep(c) == pc[c] = "register" /\ pc'[c] # "register"
\* caller c past `if command: self.server.execute(command)`
ActStep(c) == pc[c] = "act" /\ pc'[c] # "act"
\* the call was given an action: command is not None
HasAction(c) == query[c].command # NoCommand

\* C17 (as stated): in every call with an action, at the moment
\* server.execute is invoked the query is in the registry, and the action
\* is invoked before the caller starts waiting on its queue.
C17_RegisteredWhenActing ==
    [][\A c \in Callers :
          (ActStep(c) /\ HasAction(c))
             => /\ query[c] \in Entries(queries)
                /\ sent'[c]]_vars

\* C17 (amended): in every call with a non-empty action the query is
\* inserted into the registry first, then server.execute is invoked, then
\* the wait on the queue begins; a call with None or with the empty string
\* invokes nothing.  From its insertion on, every snapshot on_info takes
\* while the query is registered and unexpired holds it, before the action
\* as after it.
C17_RegisterActWait ==
    [][/\ \A c \in Callers :
             /\ RegisterStep(c) =>
                   /\ query[c] \in Entries(queries')
                   /\ ~sent'[c]
                   /\ pc'[c] = "act"
             /\ (sent'[c] /\ ~sent[c]) => ActStep(c)
             /\ ActStep(c) =>
                   sent'[c] = (query[c].command \notin {NoCommand, ""})
             /\ (pc'[c] = "wait" /\ pc[c] # "wait") => ActStep(c)
             /\ (pc'[c] = "act" /\ pc[c] # "act") => RegisterStep(c)
       /\ SnapshotStep =>
             \A c \in Callers :
                (query[c] \in Entries(queries) /\ Age(query[c]) <= query[c].timeout)
                   => query[c] \in Snap']_vars

\* c1 has registered, invoked server.execute("list") and is waiting; the
\* snapshot of a line processed after the action holds its query
C17_Witness ==
    /\ pc["c1"] = "wait"
    /\ query["c1"].command = "list"
    /\ sent["c1"]
    /\ queue["c1"] = <<>>
    /\ dpc = "scan"
    /\ query["c1"] \in Snap
    /\ query["c1"] \in Entries(queries)

Others(d, winner) == {e \in Entries(d) : e.owner # winner.owner}

\* C19 (as stated): while on_info processes a line, the purge removes and
\* notifies only queries expired at the captured time; the match is pushed
\* onto the queue of the winner only and the winner alone is removed; every
\* other unexpired query stays in the registry with an empty queue, and a
\* line no unexpired query matches changes neither registry nor queues.
C19_FrameOfOneLine ==
    [][/\ CleanupStep =>
             \A e \in Entries(queries) :
                Age(e) <= e.timeout
                   => (e \in Entries(queries') /\ queue'[e.owner] = queue[e.owner])
       /\ SnapshotStep => (queries' = queries /\ queue' = queue)
       /\ ScanStep =>
             /\ queries' = queries
             /\ IF dpc' = "remove"
                THEN \A e \in Others(queries, matched_query') :
                        queue'[e.owner] = queue[e.owner] /\ queue'[e.owner] = <<>>
                ELSE queue' = queue
       /\ RemoveStep =>
             /\ queue' = queue
             /\ \A e \in Others(queries, matched_query) :
                   e \in Entries(queries') /\ queue'[e.owner] = <<>>]_vars

\* on_info being entered
OnInfoStep == dpc = "idle" /\ dpc' # "idle"

\* C20: on_info called with a line flagged is_user returns at once: it
\* purges nothing, takes no snapshot, tests no pattern, pushes nothing and
\* leaves the registry as it is, whatever the line and however old the
\* pending queries are.
C20_UserLinesInert ==
    /\ [][/\ (OnInfoStep /\ info'.is_user) =>
                /\ dpc' = "return"
                /\ queries' = queries
                /\ queue' = queue
                /\ <<content', current_time', matching_queries', matched_query'>>
                      = <<content, current_time, matching_queries, matched_query>>
          /\ (dpc = "return" /\ dpc' # "return") =>
                /\ dpc' = "idle"
                /\ queries' = queries
                /\ queue' = queue]_vars
    /\ [](dpc \in {"cleanup", "snapshot", "scan", "remove"} => ~info.is_user)
    /\ [](dpc = "return" => info.is_user)

\* on_info is returning from a user line that c1's pattern matches, at a
\* time when c1's registered query is past its timeout
C20_Witness ==
    /\ dpc = "return"
    /\ info.is_user
    /\ pc["c1"] = "wait"
    /\ query["c1"] \in Entries(queries)
    /\ Search(query["c1"].pattern, info.content) # None
    /\ clock - query["c1"].start_time > query["c1"].timeout
    /\ queue["c1"] = <<>>

====
